---- MODULE Spec2Model ----
(***************************************************************************)
(* Model of the "will-it-jello" wobble engine (src/main.js, the variant    *)
(* that starts at line 334): four damped spring oscillators, the click     *)
(* handler that feeds them, the image-upload pipeline that installs the    *)
(* embedded object, and the animation frame that drives the shader         *)
(* uniforms and rewrites the embedded object's vertices; and of the        *)
(* JelloImageAI class (src/unnamed/part_009): rate limit, retries, result  *)
(* cache and batch processing.                                             *)
(*                                                                         *)
(* Numbers.  JavaScript numbers are IEEE doubles; here every quantity is a *)
(* fixed-point integer with SCALE units per 1.0, and every multiplication  *)
(* or division by a non-integer rounds to the nearest unit (RDiv), as      *)
(* each double operation rounds to the nearest double.  Times are in       *)
(* milliseconds, so a product with deltaTime (seconds) divides by 1000.    *)
(*                                                                         *)
(* Scheduling.  The page is single threaded: every event handler, promise  *)
(* continuation, loader callback and animation frame runs to completion,   *)
(* so each is one atomic action.                                           *)
(***************************************************************************)
EXTENDS Integers, Sequences, FiniteSets

VARIABLES
    wobbleState,   \* [Osc -> [position, velocity]]           main.js:610
    uniforms,      \* jelloMaterial.uniforms: wobbleTilt (x, y), wobbleSquash
    jellyObject,   \* the tracker's reference: a mesh id, or NULL   main.js:342
    children,      \* plane meshes in jelloMesh.children (set of mesh ids)
    meshes,        \* [mesh id -> the mesh's data], for meshes still referenced
    loads,         \* sequence of uploads that passed validation, by load id
    clockDelta,    \* what clock.getDelta() returns in a frame (ms)
    frame,         \* number of animation frames run
    clicks,        \* number of click events handled
    peak,          \* [Osc -> last local maximum of |position| since the last
                   \*  impulse, or -1]: history variable of the decay property
    \* the JelloImageAI instance (src/unnamed/part_009) and its callers
    now,             \* Date.now(), ms
    lastRequestTime, \* this.lastRequestTime                  part_009:640
    cache,           \* this.cache: [cache key -> result]      part_009:636
    calls,           \* sequence of analyzeAndGenerate invocations, by call id
    requestLog,      \* history: <<call id, time>> of the last two fetches
    completed,       \* history: files analysed successfully since the last
                     \*  clearCache
    batch,           \* the analyzeBatch invocation: files, position, results
    prediction       \* the generateWithReplicate invocation of the
                     \*  JelloImageGenerator instance

jelloVars == <<wobbleState, uniforms, jellyObject, children, meshes, loads,
               clockDelta, frame, clicks, peak>>

aiVars == <<now, lastRequestTime, cache, calls, requestLog, completed, batch>>

generatorVars == <<prediction>>

vars == <<wobbleState, uniforms, jellyObject, children, meshes, loads,
          clockDelta, frame, clicks, peak,
          now, lastRequestTime, cache, calls, requestLog, completed, batch,
          prediction>>

-----------------------------------------------------------------------------
(* Bounds of the model *)

SCALE == 10000          \* fixed-point units per 1.0
MaxUploads == 2         \* uploads that pass validation, per run
MaxClicks == 1          \* click events per run (Spec)
MaxFrames == 1          \* animation frames per run (Spec)
GridSegs == 1           \* plane segments per side (the code builds 32)
WobbleClicks == 2       \* click events per run (SpecWobble)
WobbleFrames == 4       \* animation frames per run (SpecWobble)
RestUploads == 1        \* uploads per run (SpecRest)
RestClicks == 1         \* click events per run (SpecRest)
RestFrames == 400       \* animation frames per run (SpecRest)
GeneratedUploads == 2   \* uploads on the variant page
GeneratedClicks == 1    \* clicks on the variant page
GeneratedFrames == 1    \* frames on the variant page
SwapBy == 1             \* vertices a swapped buffer has more or fewer
SwapClicks == 1         \* clicks on the page with swapped buffers
SwapFrames == 3         \* frames on the page with swapped buffers
FirstClicks == 1        \* clicks of a run with a late install
FirstFrames == 130      \* frames of a run with a late install
PredictionRuns == 1     \* generateWithReplicate invocations per run
SettleFrames == 320     \* frames after which a single click has died down
MaxCalls == 2           \* analyzeAndGenerate invocations per run (SpecAI)
TickMs == 500           \* granularity of the clock, ms
MaxElapsed == 2500      \* time a run covers, ms (SpecAI)
SeqCalls == 2           \* analyzeAndGenerate invocations per run (SpecSeq)
SeqElapsed == 6000      \* time a run covers, ms (SpecSeq)
MaxBatch == 2           \* files of one analyzeBatch (SpecBatch)
BatchElapsed == 7500    \* time a run covers, ms (SpecBatch)

NULL == 0

-----------------------------------------------------------------------------
(* Arithmetic *)

Abs(a) == IF a >= 0 THEN a ELSE -a

Min(a, b) == IF a <= b THEN a ELSE b

\* a / b rounded to the nearest integer (ties away from zero), b > 0
RDiv(a, b) == IF a >= 0 THEN (2 * a + b) \div (2 * b)
                        ELSE -((2 * (-a) + b) \div (2 * b))

\* x * (n / d) for a decimal literal n/d of the source
Times(x, n, d) == RDiv(x * n, d)

\* product of two fixed-point numbers
Mul(a, b) == RDiv(a * b, SCALE)

-----------------------------------------------------------------------------
(* Spring oscillators *)

Osc == {"tiltX", "tiltZ", "squash", "twist"}

stiffness == [tiltX |-> 25, tiltZ |-> 25, squash |-> 45, twist |-> 15]

RestSpring == [position |-> 0, velocity |-> 0]

\* dampingFactor = 0.97, as a percentage
dampingFactor == 97

\* updateSpring without the damping line
UpdateSpringUndamped(spring, k, dt) ==
    LET v1 == spring.velocity + RDiv((-spring.position) * k * dt, 1000)
    IN  [position |-> spring.position + RDiv(v1 * dt, 1000), velocity |-> v1]

\* updateSpring that moves the position by the velocity of before the step
UpdateSpringStaleVelocity(spring, k, dt) ==
    LET v1 == spring.velocity + RDiv((-spring.position) * k * dt, 1000)
        v2 == Times(v1, dampingFactor, 100)
    IN  [position |-> spring.position + RDiv(spring.velocity * dt, 1000),
         velocity |-> v2]

\* updateSpring(spring, deltaTime): deltaTime dt in ms, stiffness k
updateSpring(spring, k, dt) ==
    LET v1 == spring.velocity + RDiv((-spring.position) * k * dt, 1000)
        v2 == Times(v1, dampingFactor, 100)
    IN  [position |-> spring.position + RDiv(v2 * dt, 1000), velocity |-> v2]

\* an impulse that overwrites the velocity instead of adding to it
\* an impulse that snaps the position instead of adding to the velocity
AddImpulseSnaps(spring, delta) == [spring EXCEPT !.position = @ + delta]

AddImpulseReset(spring, delta) == [spring EXCEPT !.velocity = delta]

\* one impulse: spring.velocity += delta (position untouched)
AddImpulse(spring, delta) == [spring EXCEPT !.velocity = @ + delta]

-----------------------------------------------------------------------------
(* Click handler *)

\* local hit points (x, z) of the ray on the body; radius of the base is 1.5
HitPoints == { <<0, 0>>, <<-((3 * SCALE) \div 4), (3 * SCALE) \div 2>> }

ClickEvents ==
    {[hit |-> FALSE, x |-> 0, z |-> 0]} \cup
    {[hit |-> TRUE, x |-> h[1], z |-> h[2]] : h \in HitPoints}

\* values of Math.random() in [0, 1)
RandomSamples == {0, SCALE \div 2}

\* a tilt impulse that forgets the division by the radius
TiltImpulseUnscaled(c) == c * 5

\* (c / 1.5) * 5.0
TiltImpulse(c) == RDiv(c * 10, 15) * 5

\* the four impulses of one hit at local point (e.x, e.z) with Math.random() = r
ClickImpulse(e, r) ==
    [tiltX  |-> TiltImpulse(e.z),
     tiltZ  |-> -TiltImpulse(e.x),
     squash |-> -(8 * SCALE),
     twist  |-> (r - SCALE \div 2) * 4]

NoPeak == [o \in Osc |-> -1]

\* a handler that takes every click for a hit
IntersectsAlways(e) == TRUE

\* intersects.length > 0
Intersects(e) == e.hit

onJelloClick(e, r) ==
    /\ clicks' = clicks + 1
    /\ IF Intersects(e)
         THEN /\ wobbleState' =
                   [o \in Osc |-> AddImpulse(wobbleState[o], ClickImpulse(e, r)[o])]
              /\ peak' = NoPeak
         ELSE UNCHANGED <<wobbleState, peak>>
    /\ UNCHANGED <<aiVars, generatorVars>>
    /\ UNCHANGED <<uniforms, jellyObject, children, meshes, loads, clockDelta,
                   frame>>

-----------------------------------------------------------------------------
(* Deformation field: the body's vertex shader and the CPU copy *)

\* let objectOriginalPos = { x: 0, y: 0.5, z: 0.15 }
objectOriginalPos ==
    [x |-> 0, y |-> SCALE \div 2, z |-> (15 * SCALE) \div 100]

\* heightFactor = (y + 1.0) / 2.0, squared
HeightFactorSquared(y) ==
    LET heightFactor == RDiv(y + SCALE, 2)
    IN  Mul(heightFactor, heightFactor)

\* the oscillator positions, the deformation's only time-varying input
Positions(W) == [o \in Osc |-> W[o].position]

\* body vertex shader, on rest vertex pos with squared height factor hf2:
\* pos.x += wobbleTilt.x * hf * 0.5; squashScale = 1.0 + wobbleSquash * hf * 0.15
ShaderDisplace(pos, hf2, u) ==
    LET squashScale == SCALE + Times(Mul(u.squash, hf2), 15, 100)
    IN  [x |-> Mul(pos.x + Times(Mul(u.tiltX, hf2), 5, 10), squashScale),
         y |-> pos.y,
         z |-> Mul(pos.z + Times(Mul(u.tiltY, hf2), 5, 10), squashScale)]

vertexShader(pos, u) == ShaderDisplace(pos, HeightFactorSquared(pos.y), u)

\* animate(), primary vertex loop: sinv is the value of
\* Math.sin(time * 2 + orig.x * 3), P the oscillator positions
DeformVertex(orig, P, sinv) ==
    LET hf2 == HeightFactorSquared(orig.y + objectOriginalPos.y)
        squashScale == SCALE + Times(Mul(P.squash, hf2), 12, 100)
        wave == Times(Mul(sinv, P.squash), 2, 100)
    IN  [x |-> Mul(orig.x + Times(Mul(P.tiltX, hf2), 3, 10), squashScale),
         y |-> orig.y + wave,
         z |-> Mul(orig.z + Times(Mul(P.tiltZ, hf2), 3, 10), squashScale)]

\* animate(), outline vertex loop (geometry scaled by 1.08)
\* outline loop: worldY = (orig.y / 1.08) + objectOriginalPos.y, and the
\* squared height factor of it
OutlineHeightFactorSquared(orig) ==
    HeightFactorSquared(Times(orig.y, 100, 108) + objectOriginalPos.y)

DeformOutlineVertex(orig, P) ==
    LET hf2 == OutlineHeightFactorSquared(orig)
        squashScale == SCALE + Times(Mul(P.squash, hf2), 12, 100)
    IN  [x |-> Mul(orig.x + Times(Times(Mul(P.tiltX, hf2), 3, 10), 108, 100),
                   squashScale),
         y |-> orig.y,
         z |-> Mul(orig.z + Times(Times(Mul(P.tiltZ, hf2), 3, 10), 108, 100),
                   squashScale)]

\* isWobbling: |position| > 0.01 for tiltX, tiltZ or squash
IsWobbling(P) ==
    LET eps == SCALE \div 100
    IN  Abs(P.tiltX) > eps \/ Abs(P.tiltZ) > eps \/ Abs(P.squash) > eps

\* the object's rigid position and rotation, from its anchor objectOriginalPos
RigidPosition(P) ==
    LET hf2 == HeightFactorSquared(objectOriginalPos.y)
        squashScale == SCALE + Times(Mul(P.squash, hf2), 15, 100)
    IN  [x |-> Mul(objectOriginalPos.x + Times(Mul(P.tiltX, hf2), 5, 10),
                   squashScale),
         y |-> objectOriginalPos.y,
         z |-> Mul(objectOriginalPos.z + Times(Mul(P.tiltZ, hf2), 5, 10),
                   squashScale)]

\* a rotation that lets twist turn the object
RigidRotationWithTwist(P) ==
    [x |-> Times(P.tiltZ, 3, 10) + Times(P.twist, 3, 10),
     z |-> -Times(P.tiltX, 3, 10)]

RigidRotation(P) ==
    [x |-> Times(P.tiltZ, 3, 10), z |-> -Times(P.tiltX, 3, 10)]

\* for (let i = 0; i < positions.count; i++) { const orig = originals[i];
\* ... positions.setXYZ(i, x, y, z); }: the loop runs over the live buffer;
\* entries of originals beyond positions.count are never read, and where
\* originals[i] is missing the read of orig.y throws, which leaves the
\* vertices already written in place and the others as they were.
\* deformed[i] is the (x, y, z) the loop body computes from originals[i].
VertexLoop(positions, deformed) ==
    [i \in DOMAIN positions |->
        IF i <= Len(deformed) THEN deformed[i] ELSE positions[i]]

\* the loop reads orig.y of undefined: an uncaught TypeError leaves animate()
VertexLoopThrows(positions, originals) == Len(positions) > Len(originals)

\* the frame's update of mesh m ends in an uncaught TypeError
UpdateRaises(m, P) ==
    /\ IsWobbling(P)
    /\ \/ VertexLoopThrows(m.positions, m.originalVertices)
       \/ VertexLoopThrows(m.outlinePositions, m.outlineOriginalVertices)

\* an update that deforms the cached vertices where they are stored
UpdateEmbeddedObjectInPlace(m, P, sinv) ==
    LET deformed == [i \in DOMAIN m.originalVertices |->
                        DeformVertex(m.originalVertices[i], P, sinv)]
    IN  [m EXCEPT !.fresh = FALSE,
                  !.position = RigidPosition(P),
                  !.rotation = RigidRotation(P),
                  !.originalVertices = IF IsWobbling(P) THEN deformed ELSE @,
                  !.positions = IF IsWobbling(P) THEN deformed ELSE @]

\* animate(), the block under "if (jellyObject)": m is the mesh's data
UpdateEmbeddedObject(m, P, sinv) ==
    LET wobbling == IsWobbling(P)
        primaryThrows == VertexLoopThrows(m.positions, m.originalVertices)
    IN  [m EXCEPT
           !.fresh = FALSE,
           !.position = RigidPosition(P),
           !.rotation = RigidRotation(P),
           !.positions =
               IF wobbling
                 THEN VertexLoop(@, [i \in DOMAIN m.originalVertices |->
                                  DeformVertex(m.originalVertices[i], P, sinv)])
                 ELSE @,
           !.outlinePositions =
               IF wobbling /\ ~primaryThrows
                 THEN VertexLoop(@, [i \in DOMAIN m.outlineOriginalVertices |->
                                  DeformOutlineVertex(
                                      m.outlineOriginalVertices[i], P)])
                 ELSE @]

-----------------------------------------------------------------------------
(* Embedded object: geometry and the upload pipeline *)

\* what the file input can hold: nothing, a non-image, an image over 5MB,
\* or an acceptable image, named by its shape
Images == {"wide", "tall"}
Files == {"none", "notImage", "tooLarge"} \cup Images

\* texture.image.width and .height in pixels
ImageSize(img) == IF img = "wide" THEN [width |-> 200, height |-> 100]
                                  ELSE [width |-> 100, height |-> 200]

\* "Calculate size maintaining aspect ratio", maxSize = 1.8
PlaneSize(img) ==
    LET maxSize == (18 * SCALE) \div 10
        aspect == RDiv(ImageSize(img).width * SCALE, ImageSize(img).height)
    IN  IF aspect > SCALE
          THEN [width |-> maxSize, height |-> RDiv(maxSize * SCALE, aspect)]
          ELSE [width |-> Mul(maxSize, aspect), height |-> maxSize]

\* new THREE.PlaneGeometry(width, height, GridSegs, GridSegs): rows from the
\* top edge down, columns from the left edge, z = 0
PlaneGeometry(width, height) ==
    [i \in 1..((GridSegs + 1) * (GridSegs + 1)) |->
        LET iy == (i - 1) \div (GridSegs + 1)
            ix == (i - 1) % (GridSegs + 1)
        IN  [x |-> RDiv(ix * width, GridSegs) - RDiv(width, 2),
             y |-> -(RDiv(iy * height, GridSegs) - RDiv(height, 2)),
             z |-> 0]]

\* outlineGeometry = geometry.clone(); outlineGeometry.scale(1.08, 1.08, 1.08)
OutlineGeometry(geometry) ==
    [i \in DOMAIN geometry |->
        [x |-> Times(geometry[i].x, 108, 100),
         y |-> Times(geometry[i].y, 108, 100),
         z |-> Times(geometry[i].z, 108, 100)]]

\* a mesh added before the outline's originalVertices were stored
NewMeshWithoutSnapshot(img) ==
    LET geometry == PlaneGeometry(PlaneSize(img).width, PlaneSize(img).height)
    IN  [image |-> img,
         originalVertices |-> geometry,
         positions |-> geometry,
         outlineOriginalVertices |-> <<>>,
         outlinePositions |-> OutlineGeometry(geometry),
         position |-> objectOriginalPos,
         rotation |-> [x |-> 0, z |-> 0],
         fresh |-> TRUE]

\* the mesh the texture callback builds: primary plane, outline, and the
\* originalVertices snapshot of each.  fresh is history: no frame has
\* updated the mesh yet.
NewMesh(img) ==
    LET geometry == PlaneGeometry(PlaneSize(img).width, PlaneSize(img).height)
    IN  [image |-> img,
         originalVertices |-> geometry,
         positions |-> geometry,
         outlineOriginalVertices |-> OutlineGeometry(geometry),
         outlinePositions |-> OutlineGeometry(geometry),
         position |-> objectOriginalPos,
         rotation |-> [x |-> 0, z |-> 0],
         fresh |-> TRUE]

\* f restricted to the ids in S
Restrict(f, S) == [id \in S |-> f[id]]

\* a teardown that clears the reference but leaves the mesh parented
ChildrenAfterNoTeardown(ch, obj) == ch

\* upload handler, "Properly remove old object": what is left under the body
\* once jellyObject was removed from its parent
ChildrenAfterTeardown(ch, obj) == ch \ {obj}

\* child.material.dispose() for the meshes of the loads in ids: three.js
\* frees the material's programs, and leaves material.map, the texture of
\* the load, allocated (only texture.dispose() frees it; src/main.js never calls it)
DisposeMaterials(ls, ids) ==
    [l \in DOMAIN ls |->
       IF l \in ids THEN [ls[l] EXCEPT !.texture = @] ELSE ls[l]]

\* upload handler up to the first await: validation (an early return for no
\* file, a non-image or a file over 5MB), teardown of the installed object,
\* start of removeBackground(file).  The #upload-status text is not modelled.
imageUploadChange(file) ==
    /\ IF file \notin Images
         THEN UNCHANGED <<jellyObject, children, meshes, loads>>
         ELSE /\ children' = IF jellyObject # NULL
                               THEN ChildrenAfterTeardown(children, jellyObject)
                               ELSE children
              /\ jellyObject' = NULL
              /\ meshes' = Restrict(meshes, children')
              /\ loads' = Append(DisposeMaterials(loads, {jellyObject} \ {NULL}),
                                 [phase |-> "removeBackground",
                                  image |-> file,
                                  replaced |-> jellyObject,
                                  texture |-> "none"])
    /\ UNCHANGED <<aiVars, generatorVars>>
    /\ UNCHANGED <<wobbleState, uniforms, clockDelta, frame, clicks, peak>>

\* await removeBackground(file) resolves: textureLoader.load(...) is started
removeBackgroundResolved(l) ==
    /\ loads[l].phase = "removeBackground"
    /\ loads' = [loads EXCEPT ![l].phase = "textureLoad"]
    /\ UNCHANGED <<aiVars, generatorVars>>
    /\ UNCHANGED <<wobbleState, uniforms, jellyObject, children, meshes,
                   clockDelta, frame, clicks, peak>>

\* a catch block that also puts the oscillators back to rest
removeBackgroundRejectedResets(l) ==
    /\ loads[l].phase = "removeBackground"
    /\ loads' = [loads EXCEPT ![l].phase = "failed"]
    /\ wobbleState' = [o \in Osc |-> RestSpring]
    /\ UNCHANGED <<aiVars, generatorVars>>
    /\ UNCHANGED <<uniforms, jellyObject, children, meshes,
                   clockDelta, frame, clicks, peak>>

\* await removeBackground(file) rejects: the catch block
removeBackgroundRejected(l) ==
    /\ loads[l].phase = "removeBackground"
    /\ loads' = [loads EXCEPT ![l].phase = "failed"]
    /\ UNCHANGED <<aiVars, generatorVars>>
    /\ UNCHANGED <<wobbleState, uniforms, jellyObject, children, meshes,
                   clockDelta, frame, clicks, peak>>

\* a callback without the clean-up filter
ChildrenUnfiltered(ch, obj) == ch

\* texture callback, "clean up any old plane meshes": the children the
\* filter keeps when the new mesh is obj (every child here is a plane mesh)
ChildrenAfterFilter(ch, obj) == {c \in ch : c = obj}

\* a callback that never parents the new mesh
ChildrenAfterInstallNoAdd(ch, obj) == ChildrenAfterFilter(ch, obj)

\* texture callback: the filter, then jelloMesh.add(jellyObject)
ChildrenAfterInstall(ch, obj) == ChildrenAfterFilter(ch, obj) \cup {obj}

\* textureLoader.load's onLoad callback of load l
textureLoaded(l) ==
    /\ loads[l].phase = "textureLoad"
    /\ loads' = [DisposeMaterials(loads, children \ {l})
                   EXCEPT ![l].phase = "installed", ![l].texture = "live"]
    /\ jellyObject' = l
    /\ children' = ChildrenAfterInstall(children, l)
    /\ meshes' = [id \in children' \cup {l} |->
                     IF id = l THEN NewMesh(loads[l].image) ELSE meshes[id]]
    /\ UNCHANGED <<aiVars, generatorVars>>
    /\ UNCHANGED <<wobbleState, uniforms, clockDelta, frame, clicks, peak>>

\* the texture fails to decode: textureLoader.load was given no onError
textureError(l) ==
    /\ loads[l].phase = "textureLoad"
    /\ loads' = [loads EXCEPT ![l].phase = "textureError"]
    /\ UNCHANGED <<aiVars, generatorVars>>
    /\ UNCHANGED <<wobbleState, uniforms, jellyObject, children, meshes,
                   clockDelta, frame, clicks, peak>>

-----------------------------------------------------------------------------
(* Animation frame *)

\* values of Math.sin(time * 2 + orig.x * 3) in a frame
SinSamples == {-SCALE, SCALE \div 2}

\* frame intervals of the display, ms: 120 Hz, and a stalled 20 fps
ClockDeltas == {8, 50}

\* Math.min(clock.getDelta(), 0.016), in ms
MaxDeltaMs == 16

\* clock.getDelta() passed on as it is
DeltaTimeUnclamped(getDelta) == getDelta

DeltaTime(getDelta) == Min(getDelta, MaxDeltaMs)

\* four updateSpring calls in which every spring also feels squash
AdvanceWobbleCoupled(W, deltaTime) ==
    [o \in Osc |->
        updateSpring([W[o] EXCEPT !.velocity = @ + W.squash.position],
                     stiffness[o], deltaTime)]

\* the four updateSpring calls
AdvanceWobble(W, deltaTime) ==
    [o \in Osc |-> updateSpring(W[o], stiffness[o], deltaTime)]

\* uniforms written from the positions of before the springs were advanced
UniformsStale(W) ==
    [tiltX |-> wobbleState.tiltX.position, tiltY |-> wobbleState.tiltZ.position,
     squash |-> wobbleState.squash.position]

\* jelloMaterial.uniforms.wobbleTilt.value.set(tiltX, tiltZ); wobbleSquash
UniformsOf(W) ==
    [tiltX |-> W.tiltX.position, tiltY |-> W.tiltZ.position,
     squash |-> W.squash.position]

\* history: |position| of `cur` is a local maximum when the step that led to
\* it did not move inward and the step to `nxt` does
PeakAt(cur, nxt) ==
    /\ Abs(nxt.position) < Abs(cur.position)
    /\ cur.velocity * cur.position >= 0

animate(sinv) ==
    LET deltaTime == DeltaTime(clockDelta)
        W == AdvanceWobble(wobbleState, deltaTime)
    IN  /\ frame' = frame + 1
        /\ wobbleState' = W
        /\ uniforms' = UniformsOf(W)
        /\ meshes' = IF jellyObject # NULL
                       THEN [meshes EXCEPT ![jellyObject] =
                               UpdateEmbeddedObject(@, Positions(W), sinv)]
                       ELSE meshes
        /\ peak' = [o \in Osc |->
                       IF PeakAt(wobbleState[o], W[o])
                         THEN Abs(wobbleState[o].position) ELSE peak[o]]
        /\ UNCHANGED <<aiVars, generatorVars>>
        /\ UNCHANGED <<jellyObject, children, loads, clockDelta, clicks>>

-----------------------------------------------------------------------------
(* JelloImageAI (src/unnamed/part_009) *)

\* this.minRequestInterval, ms
minRequestInterval == 1000

\* this.maxRetries = options.maxRetries || 3, with the default options
maxRetries == 3

\* this.enableCache = options.enableCache !== false, with the default options
enableCache == TRUE

\* _validateFile: const maxSize, in MB
maxFileSizeMB == 10

\* Date.now() when the page starts; lastRequestTime starts at 0, far below
Epoch == 4 * minRequestInterval

\* files a caller passes: size in MB, content as a short string of char codes
FileCat == [name |-> "cat.png", size |-> 1, type |-> "image/png",
            content |-> <<99, 97>>]
FileDog == [name |-> "dog.jpg", size |-> 2, type |-> "image/jpeg",
            content |-> <<100, 111>>]
FilePdf == [name |-> "doc.pdf", size |-> 1, type |-> "application/pdf",
            content |-> <<37, 80>>]

AIFiles == {FileCat, FileDog, FilePdf}

validTypes == {"image/jpeg", "image/jpg", "image/png", "image/webp",
               "image/gif"}

\* _validateFile(file) returns without throwing
ValidFile(file) == file.size <= maxFileSizeMB /\ file.type \in validTypes

\* _generateCacheKey(base64): hash = ((hash << 5) - hash) + charCode, from
\* character i on (the contents here are too short for the 32-bit wrap)
RECURSIVE HashFrom(_, _, _)
HashFrom(hash, base64, i) ==
    IF i > Len(base64) THEN hash
    ELSE HashFrom((hash * 32 - hash) + base64[i], base64, i + 1)

generateCacheKey(base64) == HashFrom(0, base64, 1)

\* _fileToBase64(file), then _generateCacheKey
CacheKeyOf(file) == generateCacheKey(file.content)

NoCache == [k \in {} |-> NULL]

\* a call that never stores its result
CacheWithoutStore(c, key, result) == c

\* if (this.enableCache) this.cache.set(cacheKey, result)
CacheAfterStore(c, key, result) ==
    IF enableCache
      THEN [k \in DOMAIN c \cup {key} |-> IF k = key THEN result ELSE c[k]]
      ELSE c

\* a retry loop that runs one attempt too many
MoreAttemptsOffByOne(attempt) == attempt <= maxRetries

\* catch block of the retry loop: if (attempt < this.maxRetries)
MoreAttempts(attempt) == attempt < maxRetries

\* 2 ^ n
RECURSIVE Pow2(_)
Pow2(n) == IF n = 0 THEN 1 ELSE 2 * Pow2(n - 1)

\* backoffTime = Math.pow(2, attempt) * 1000
BackoffTime(attempt) == Pow2(attempt) * 1000

CallIds == DOMAIN calls

\* a new analyzeAndGenerate invocation, up to its first await that takes
\* time: _validateFile throws for a bad file, else the file is being read
NewCall(file, inBatch) ==
    [file |-> file,
     pc |-> IF ValidFile(file) THEN "base64" ELSE "failed",
     error |-> IF ValidFile(file) THEN "" ELSE "validation",
     attempt |-> 0,
     requests |-> 0,
     wakeAt |-> 0,
     result |-> NULL,
     covered |-> file \in completed,
     inBatch |-> inBatch]

\* history: the log keeps the previous fetch and the new one
Logged(log, entry) ==
    IF log = <<>> THEN <<entry>> ELSE <<log[Len(log)], entry>>

\* request number attempt of call c starts now
Fetch(c, attempt) ==
    /\ calls' = [calls EXCEPT ![c].pc = "fetch", ![c].attempt = attempt,
                              ![c].requests = @ + 1]
    /\ requestLog' = Logged(requestLog, <<c, now>>)

analyzeAndGenerate(file) ==
    /\ calls' = Append(calls, NewCall(file, FALSE))
    /\ UNCHANGED <<now, lastRequestTime, cache, requestLog, completed, batch>>
    /\ UNCHANGED <<jelloVars, generatorVars>>

\* the file has been read: cache lookup; on a miss _analyzeWithClaude starts
\* and runs _enforceRateLimit up to its wait, or through to the first fetch
fileRead(c) ==
    /\ calls[c].pc = "base64"
    /\ LET key == CacheKeyOf(calls[c].file)
           timeSinceLastRequest == now - lastRequestTime
       IN  IF enableCache /\ key \in DOMAIN cache
             THEN /\ calls' = [calls EXCEPT ![c].pc = "done",
                                            ![c].result = cache[key]]
                  /\ UNCHANGED <<lastRequestTime, requestLog>>
             ELSE IF timeSinceLastRequest < minRequestInterval
                    THEN /\ calls' = [calls EXCEPT
                               ![c].pc = "rateWait",
                               ![c].wakeAt = now + (minRequestInterval
                                                    - timeSinceLastRequest)]
                         /\ UNCHANGED <<lastRequestTime, requestLog>>
                    ELSE /\ lastRequestTime' = now
                         /\ Fetch(c, 1)
    /\ UNCHANGED <<now, cache, completed, batch>>
    /\ UNCHANGED <<jelloVars, generatorVars>>

\* _enforceRateLimit after its wait: lastRequestTime = Date.now(), first fetch
rateWaitDone(c) ==
    /\ calls[c].pc = "rateWait"
    /\ now >= calls[c].wakeAt
    /\ lastRequestTime' = now
    /\ Fetch(c, 1)
    /\ UNCHANGED <<now, cache, completed, batch>>
    /\ UNCHANGED <<jelloVars, generatorVars>>

\* the API answers with an analysis that passes _validateAnalysis
responseOk(c) ==
    /\ calls[c].pc = "fetch"
    /\ calls' = [calls EXCEPT
                   ![c].pc = "process",
                   ![c].result = [objectName |-> calls[c].file.name,
                                  call |-> c, processedImage |-> ""]]
    /\ UNCHANGED <<now, lastRequestTime, cache, requestLog, completed, batch>>
    /\ UNCHANGED <<jelloVars, generatorVars>>

\* the attempt fails (network error, abort on timeout, HTTP error, no JSON,
\* invalid analysis): back off and retry, or give up after the last attempt
responseFailed(c) ==
    /\ calls[c].pc = "fetch"
    /\ IF MoreAttempts(calls[c].attempt)
         THEN calls' = [calls EXCEPT
                          ![c].pc = "backoff",
                          ![c].wakeAt = now + BackoffTime(calls[c].attempt)]
         ELSE calls' = [calls EXCEPT ![c].pc = "failed",
                                     ![c].error = "apiFailed"]
    /\ UNCHANGED <<now, lastRequestTime, cache, requestLog, completed, batch>>
    /\ UNCHANGED <<jelloVars, generatorVars>>

\* the backoff wait is over: the next attempt's fetch
backoffDone(c) ==
    /\ calls[c].pc = "backoff"
    /\ now >= calls[c].wakeAt
    /\ Fetch(c, calls[c].attempt + 1)
    /\ UNCHANGED <<now, lastRequestTime, cache, completed, batch>>
    /\ UNCHANGED <<jelloVars, generatorVars>>

\* _processImage resolves: the result is built, cached and returned
imageProcessed(c) ==
    /\ calls[c].pc = "process"
    /\ LET result == [calls[c].result EXCEPT
                         !.processedImage = calls[c].file.name]
       IN  /\ calls' = [calls EXCEPT ![c].pc = "done", ![c].result = result]
           /\ cache' = CacheAfterStore(cache, CacheKeyOf(calls[c].file), result)
    /\ completed' = completed \cup {calls[c].file}
    /\ UNCHANGED <<now, lastRequestTime, requestLog, batch>>
    /\ UNCHANGED <<jelloVars, generatorVars>>

\* calls that have not returned yet
Pending(c) == calls[c].pc \notin {"done", "failed"}

clearCache ==
    /\ cache' = NoCache
    /\ completed' = {}
    /\ calls' = [c \in CallIds |->
                   IF Pending(c) THEN [calls[c] EXCEPT !.covered = FALSE]
                   ELSE calls[c]]
    /\ UNCHANGED <<now, lastRequestTime, requestLog, batch>>
    /\ UNCHANGED <<jelloVars, generatorVars>>

\* a batch that gives up at the first failure
BatchStopsOnFailure(entry, i, files) == entry.success /\ i < Len(files)

\* analyzeBatch: if (i < files.length - 1), with i counted from 1 here
BatchContinues(entry, i, files) == i < Len(files)

\* analyzeBatch(files) up to its first await: the first file's call starts
analyzeBatch(files) ==
    /\ batch.pc = "idle"
    /\ IF files = <<>>
         THEN /\ batch' = [batch EXCEPT !.pc = "done"]
              /\ UNCHANGED calls
         ELSE /\ calls' = Append(calls, NewCall(files[1], TRUE))
              /\ batch' = [batch EXCEPT !.pc = "awaitCall", !.files = files,
                                        !.i = 1, !.call = Len(calls) + 1]
    /\ UNCHANGED <<now, lastRequestTime, cache, requestLog, completed>>
    /\ UNCHANGED <<jelloVars, generatorVars>>

\* the awaited analyzeAndGenerate has returned or thrown: one entry is
\* pushed, then the loop waits before the next file or returns the results
batchCallSettled ==
    /\ batch.pc = "awaitCall"
    /\ ~Pending(batch.call)
    /\ LET call == calls[batch.call]
           entry == IF call.pc = "done"
                      THEN [success |-> TRUE, file |-> call.file.name,
                            result |-> call.result, error |-> ""]
                      ELSE [success |-> FALSE, file |-> call.file.name,
                            result |-> NULL, error |-> call.error]
       IN  batch' = [batch EXCEPT
                       !.results = Append(@, entry),
                       !.pc = IF BatchContinues(entry, batch.i, batch.files)
                                THEN "wait" ELSE "done",
                       !.wakeAt = now + minRequestInterval]
    /\ UNCHANGED <<now, lastRequestTime, cache, calls, requestLog, completed>>
    /\ UNCHANGED <<jelloVars, generatorVars>>

\* the wait between two files is over: the next file's call starts
batchWaitDone ==
    /\ batch.pc = "wait"
    /\ now >= batch.wakeAt
    /\ calls' = Append(calls, NewCall(batch.files[batch.i + 1], TRUE))
    /\ batch' = [batch EXCEPT !.pc = "awaitCall", !.i = @ + 1,
                              !.call = Len(calls) + 1]
    /\ UNCHANGED <<now, lastRequestTime, cache, requestLog, completed>>
    /\ UNCHANGED <<jelloVars, generatorVars>>

\* the batch loop can go on
BatchReady ==
    \/ batch.pc = "awaitCall" /\ ~Pending(batch.call)
    \/ batch.pc = "wait" /\ now >= batch.wakeAt

\* a continuation that is ready to run: a file read or an image processing
\* (local work, far shorter than a tick), or a timer that has expired
Ready(c) ==
    \/ calls[c].pc \in {"base64", "process"}
    \/ calls[c].pc \in {"rateWait", "backoff"} /\ now >= calls[c].wakeAt

\* time passes, once every ready continuation has run
Tick ==
    /\ \A c \in CallIds : ~Ready(c)
    /\ ~BatchReady
    /\ now' = now + TickMs
    /\ UNCHANGED <<lastRequestTime, cache, calls, requestLog, completed, batch>>
    /\ UNCHANGED <<jelloVars, generatorVars>>

NoBatch == [pc |-> "idle", files |-> <<>>, i |-> 0, call |-> 0,
            wakeAt |-> 0, results |-> <<>>]

AIInit ==
    /\ now = Epoch
    /\ lastRequestTime = 0
    /\ cache = NoCache
    /\ calls = <<>>
    /\ requestLog = <<>>
    /\ completed = {}
    /\ batch = NoBatch

-----------------------------------------------------------------------------
(* JelloImageGenerator.generateWithReplicate                               *)
(* (src/jello-image-generator-proxy.js): one prediction is created and is  *)
(* then polled, a wait of pollInterval before each poll.                   *)

\* this.maxPollAttempts = 60
maxPollAttempts == 60

\* what a poll can answer: a response that is not OK, or result.status
PollResponses == {"notOk", "starting", "processing", "succeeded", "failed"}

NoPrediction == [pc |-> "idle", attempt |-> 0, polls |-> 0, status |-> "",
                 output |-> "", error |-> "", runs |-> 0]

GeneratorInit == prediction = NoPrediction

\* a loop test that lets one more poll through
MorePollsOffByOne(attempt) == attempt <= maxPollAttempts

\* for (let attempt = 0; attempt < this.maxPollAttempts; attempt++)
MorePolls(attempt) == attempt < maxPollAttempts

\* generateWithReplicate(prompt) is called: POST /generate/replicate
generateWithReplicate ==
    /\ prediction.pc \in {"idle", "returned", "thrown"}
    /\ prediction' = [NoPrediction EXCEPT !.pc = "create",
                                         !.runs = prediction.runs + 1]
    /\ UNCHANGED <<jelloVars, aiVars>>

\* the create request answers: not OK throws "Replicate start failed",
\* otherwise the loop is entered with attempt = 0
createResponded(ok) ==
    /\ prediction.pc = "create"
    /\ prediction' =
          IF ~ok THEN [prediction EXCEPT !.pc = "thrown",
                                         !.error = "startFailed"]
          ELSE IF MorePolls(0) THEN [prediction EXCEPT !.pc = "wait"]
          ELSE [prediction EXCEPT !.pc = "thrown", !.error = "timeout"]
    /\ UNCHANGED <<jelloVars, aiVars>>

\* await this._wait(this.pollInterval) is over: the poll is fetched
pollWaitDone ==
    /\ prediction.pc = "wait"
    /\ prediction' = [prediction EXCEPT !.pc = "poll", !.polls = @ + 1]
    /\ UNCHANGED <<jelloVars, aiVars>>

\* the poll answers with resp: the rest of the loop body, attempt++ and the
\* loop test
pollResponded(resp) ==
    /\ prediction.pc = "poll"
    /\ prediction' =
          IF resp = "notOk"
            THEN [prediction EXCEPT !.pc = "thrown", !.status = resp,
                                    !.error = "pollingFailed"]
          ELSE IF resp = "succeeded"
            THEN [prediction EXCEPT !.pc = "returned", !.status = resp,
                                    !.output = "output[0]"]
          ELSE IF resp = "failed"
            THEN [prediction EXCEPT !.pc = "thrown", !.status = resp,
                                    !.error = "generationFailed"]
          ELSE IF MorePolls(prediction.attempt + 1)
            THEN [prediction EXCEPT !.pc = "wait", !.status = resp,
                                    !.attempt = @ + 1]
          ELSE [prediction EXCEPT !.pc = "thrown", !.status = resp,
                                  !.attempt = @ + 1, !.error = "timeout"]
    /\ UNCHANGED <<jelloVars, aiVars>>

-----------------------------------------------------------------------------
(* Specifications *)

Init ==
    /\ wobbleState = [o \in Osc |-> RestSpring]
    /\ uniforms = [tiltX |-> 0, tiltY |-> 0, squash |-> 0]
    /\ jellyObject = NULL
    /\ children = {}
    /\ meshes = [id \in {} |-> NULL]
    /\ loads = <<>>
    /\ clockDelta \in ClockDeltas
    /\ frame = 0
    /\ clicks = 0
    /\ peak = NoPeak
    /\ AIInit
    /\ GeneratorInit

LoadIds == DOMAIN loads

\* every interleaving of uploads, load completions, clicks and frames
Next ==
    \/ \E file \in Files :
          Len(loads) < MaxUploads /\ imageUploadChange(file)
    \/ \E l \in LoadIds : removeBackgroundResolved(l)
    \/ \E l \in LoadIds : removeBackgroundRejected(l)
    \/ \E l \in LoadIds : textureLoaded(l)
    \/ \E l \in LoadIds : textureError(l)
    \/ \E e \in ClickEvents, r \in RandomSamples :
          clicks < MaxClicks /\ onJelloClick(e, r)
    \/ \E sinv \in SinSamples :
          frame < MaxFrames /\ animate(sinv)

Spec == Init /\ [][Next]_vars

(***************************************************************************)
(* The page variant of src/unnamed/part_005 (lines 1-743): the upload is   *)
(* sent to imageGenerator.detectAndGenerate instead of removeBackground,   *)
(* the teardown removes every plane mesh and disposes the texture too, and *)
(* the texture callback builds the outline at 1.06 and has no filter.  Its *)
(* click handler and its animate are those of src/main.js.                 *)
(***************************************************************************)

\* outlineGeometry = geometry.clone(); outlineGeometry.scale(1.06, 1.06, 1.06)
OutlineGeometryGenerated(geometry) ==
    [i \in DOMAIN geometry |->
        [x |-> Times(geometry[i].x, 106, 100),
         y |-> Times(geometry[i].y, 106, 100),
         z |-> Times(geometry[i].z, 106, 100)]]

\* the mesh the texture callback of the variant builds
NewMeshGenerated(img) ==
    LET geometry == PlaneGeometry(PlaneSize(img).width, PlaneSize(img).height)
    IN  [image |-> img,
         originalVertices |-> geometry,
         positions |-> geometry,
         outlineOriginalVertices |-> OutlineGeometryGenerated(geometry),
         outlinePositions |-> OutlineGeometryGenerated(geometry),
         position |-> objectOriginalPos,
         rotation |-> [x |-> 0, z |-> 0],
         fresh |-> TRUE]

\* upload handler of the variant up to await detectAndGenerate: validation,
\* then every plane mesh is removed from jelloMesh with its geometry,
\* material and material.map disposed, and jellyObject = null
imageUploadGenerated(file) ==
    /\ IF file \notin Images
         THEN UNCHANGED <<jellyObject, children, meshes, loads>>
         ELSE /\ children' = {}
              /\ jellyObject' = NULL
              /\ meshes' = Restrict(meshes, children')
              /\ loads' = Append([l \in DOMAIN loads |->
                                    IF l \in children
                                      THEN [loads[l] EXCEPT !.texture = "disposed"]
                                      ELSE loads[l]],
                                 [phase |-> "detectAndGenerate",
                                  image |-> file,
                                  replaced |-> jellyObject,
                                  texture |-> "none"])
    /\ UNCHANGED <<aiVars, generatorVars>>
    /\ UNCHANGED <<wobbleState, uniforms, clockDelta, frame, clicks, peak>>

\* await imageGenerator.detectAndGenerate(file) resolves: textureLoader.load
detectAndGenerateResolved(l) ==
    /\ loads[l].phase = "detectAndGenerate"
    /\ loads' = [loads EXCEPT ![l].phase = "textureLoad"]
    /\ UNCHANGED <<aiVars, generatorVars>>
    /\ UNCHANGED <<wobbleState, uniforms, jellyObject, children, meshes,
                   clockDelta, frame, clicks, peak>>

\* texture callback of the variant: builds the mesh and its outline and
\* adds it to jelloMesh
textureLoadedGenerated(l) ==
    /\ loads[l].phase = "textureLoad"
    /\ loads' = [loads EXCEPT ![l].phase = "installed", ![l].texture = "live"]
    /\ jellyObject' = l
    /\ children' = children \cup {l}
    /\ meshes' = [id \in children' |->
                     IF id = l THEN NewMeshGenerated(loads[l].image)
                               ELSE meshes[id]]
    /\ UNCHANGED <<aiVars, generatorVars>>
    /\ UNCHANGED <<wobbleState, uniforms, clockDelta, frame, clicks, peak>>

\* the variant page: uploads, clicks and a few frames
NextGenerated ==
    \/ \E file \in Files :
          Len(loads) < GeneratedUploads /\ imageUploadGenerated(file)
    \/ \E l \in LoadIds : detectAndGenerateResolved(l)
    \/ \E l \in LoadIds : textureLoadedGenerated(l)
    \/ \E e \in ClickEvents, r \in RandomSamples :
          clicks < GeneratedClicks /\ onJelloClick(e, r)
    \/ \E sinv \in SinSamples :
          frame < GeneratedFrames /\ animate(sinv)

SpecGenerated == Init /\ [][NextGenerated]_vars

(***************************************************************************)
(* The embedded-object update on buffers that do not match the cache.  No  *)
(* handler of the page swaps a geometry, so the mismatch is an input: the  *)
(* page starts with an installed object whose live buffers were replaced   *)
(* by buffers of another vertex count, its originalVertices left as built. *)
(***************************************************************************)

\* a buffer of n vertices taken from buffer
Resized(buffer, n) ==
    [i \in 1..n |-> buffer[((i - 1) % Len(buffer)) + 1]]

\* the mesh of image img after its two geometries were swapped for ones of
\* d more vertices (fewer for d < 0)
SwappedMesh(img, d) ==
    LET m == NewMesh(img)
    IN  [m EXCEPT !.positions = Resized(@, Len(@) + d),
                  !.outlinePositions = Resized(@, Len(@) + d)]

InitSwapped ==
    /\ wobbleState = [o \in Osc |-> RestSpring]
    /\ uniforms = [tiltX |-> 0, tiltY |-> 0, squash |-> 0]
    /\ jellyObject = 1
    /\ children = {1}
    /\ \E img \in Images, d \in {-SwapBy, SwapBy} :
          /\ meshes = [id \in {1} |-> SwappedMesh(img, d)]
          /\ loads = <<[phase |-> "installed", image |-> img,
                        replaced |-> NULL, texture |-> "live"]>>
    /\ clockDelta \in ClockDeltas
    /\ frame = 0
    /\ clicks = 0
    /\ peak = NoPeak
    /\ AIInit
    /\ GeneratorInit

NextSwapped ==
    \/ \E e \in ClickEvents, r \in RandomSamples :
          clicks < SwapClicks /\ onJelloClick(e, r)
    \/ \E sinv \in SinSamples :
          frame < SwapFrames /\ animate(sinv)

SpecSwapped == InitSwapped /\ [][NextSwapped]_vars

\* a load that completes late: one upload, one click, and the texture
\* callback at any frame of the wobble's decay
NextFirst ==
    \/ \E file \in Images :
          Len(loads) < 1 /\ frame = 0 /\ imageUploadChange(file)
    \/ \E l \in LoadIds : frame = 0 /\ removeBackgroundResolved(l)
    \/ \E l \in LoadIds : textureLoaded(l)
    \/ \E e \in ClickEvents, r \in RandomSamples :
          /\ clicks < FirstClicks /\ frame = 0
          /\ onJelloClick(e, r)
    \/ \E sinv \in SinSamples :
          /\ frame < FirstFrames
          /\ \A l \in LoadIds : loads[l].phase # "removeBackground"
          /\ animate(sinv)

SpecFirst == Init /\ [][NextFirst]_vars

\* one JelloImageGenerator instance: generateWithReplicate, and the proxy
\* answering each request in any way it can
NextGenerator ==
    \/ prediction.runs < PredictionRuns /\ generateWithReplicate
    \/ \E ok \in BOOLEAN : createResponded(ok)
    \/ pollWaitDone
    \/ \E resp \in PollResponses : pollResponded(resp)

SpecGenerator == Init /\ [][NextGenerator]_vars

\* the oscillators alone: clicks and frames, no upload
NextWobble ==
    \/ \E e \in ClickEvents, r \in RandomSamples :
          clicks < WobbleClicks /\ onJelloClick(e, r)
    \/ \E sinv \in SinSamples :
          frame < WobbleFrames /\ animate(sinv)

SpecWobble == Init /\ [][NextWobble]_vars

\* a long run: the page is set up before the first frame (uploads that
\* succeed, then clicks), and then only frames follow
NextRest ==
    \/ \E file \in Files :
          /\ frame = 0 /\ clicks = 0 /\ Len(loads) < RestUploads
          /\ imageUploadChange(file)
    \/ \E l \in LoadIds :
          frame = 0 /\ clicks = 0 /\ removeBackgroundResolved(l)
    \/ \E l \in LoadIds :
          frame = 0 /\ clicks = 0 /\ textureLoaded(l)
    \/ \E e \in ClickEvents, r \in RandomSamples :
          /\ frame = 0 /\ clicks < RestClicks
          /\ \A l \in LoadIds : loads[l].phase = "installed"
          /\ onJelloClick(e, r)
    \/ \E sinv \in SinSamples :
          /\ frame < RestFrames
          /\ \A l \in LoadIds : loads[l].phase = "installed"
          /\ animate(sinv)

SpecRest == Init /\ [][NextRest]_vars

\* the page with a display that keeps up with the frame rate
InitAI == Init /\ clockDelta <= MaxDeltaMs

\* one JelloImageAI instance: overlapping analyzeAndGenerate calls, the API
\* answering or failing at any time, clearCache, the clock
NextAI ==
    \/ \E file \in AIFiles :
          Len(calls) < MaxCalls /\ analyzeAndGenerate(file)
    \/ \E c \in CallIds : fileRead(c)
    \/ \E c \in CallIds : rateWaitDone(c)
    \/ \E c \in CallIds : responseOk(c)
    \/ \E c \in CallIds : responseFailed(c)
    \/ \E c \in CallIds : backoffDone(c)
    \/ \E c \in CallIds : imageProcessed(c)
    \/ clearCache
    \/ now - Epoch < MaxElapsed /\ Tick

SpecAI == InitAI /\ [][NextAI]_vars

\* one JelloImageAI instance whose caller awaits each analyzeAndGenerate
\* before the next one, over a time long enough for every retry
NextSeq ==
    \/ \E file \in AIFiles :
          /\ Len(calls) < SeqCalls
          /\ \A c \in CallIds : ~Pending(c)
          /\ analyzeAndGenerate(file)
    \/ \E c \in CallIds : fileRead(c)
    \/ \E c \in CallIds : rateWaitDone(c)
    \/ \E c \in CallIds : responseOk(c)
    \/ \E c \in CallIds : responseFailed(c)
    \/ \E c \in CallIds : backoffDone(c)
    \/ \E c \in CallIds : imageProcessed(c)
    \/ clearCache
    \/ now - Epoch < SeqElapsed /\ Tick

SpecSeq == InitAI /\ [][NextSeq]_vars

\* files handed to analyzeBatch: every sequence of at most MaxBatch files
RECURSIVE SeqsUpTo(_)
SeqsUpTo(n) ==
    IF n = 0 THEN {<<>>}
    ELSE LET shorter == SeqsUpTo(n - 1)
         IN  shorter \cup {Append(q, f) : q \in shorter, f \in AIFiles}

\* one JelloImageAI instance running one analyzeBatch
NextBatch ==
    \/ \E files \in SeqsUpTo(MaxBatch) : analyzeBatch(files)
    \/ \E c \in CallIds : fileRead(c)
    \/ \E c \in CallIds : responseOk(c)
    \/ \E c \in CallIds : responseFailed(c)
    \/ \E c \in CallIds : backoffDone(c)
    \/ \E c \in CallIds : imageProcessed(c)
    \/ batchCallSettled
    \/ batchWaitDone
    \/ now - Epoch < BatchElapsed /\ Tick

SpecBatch == InitAI /\ [][NextBatch]_vars

-----------------------------------------------------------------------------
(* Properties *)

Eps == SCALE \div 100

FrameStep == frame' = frame + 1

\* load l's texture callback runs in this step
InstallStep(l) ==
    loads[l].phase = "textureLoad" /\ loads'[l].phase = "installed"

\* load l fails in this step (removeBackground rejects, or the decode fails)
FailStep(l) ==
    /\ loads[l].phase \in {"removeBackground", "textureLoad"}
    /\ loads'[l].phase \in {"failed", "textureError"}

\* C1: in every frame that rewrites the embedded object's vertices, each
\* vertex gets the horizontal offset and the squash scale that the body's
\* vertex shader formula gives for the same rest vertex, the same height
\* factor and the same wobble state (same tilt and squash coefficients).
C1_RegistrationWithShader ==
    [][ (FrameStep /\ jellyObject # NULL
            /\ IsWobbling(Positions(wobbleState')))
        => LET m == meshes'[jellyObject]
           IN  \A i \in DOMAIN m.originalVertices :
                 LET orig == m.originalVertices[i]
                     hf2 == HeightFactorSquared(orig.y + objectOriginalPos.y)
                     body == ShaderDisplace(orig, hf2, uniforms')
                 IN  /\ m.positions[i].x = body.x
                     /\ m.positions[i].z = body.z ]_vars

\* C2: when load a's texture callback fires after a later load b has
\* already installed its object, a's result is discarded: the installed
\* object is still b's after the callback.
C2_StaleLoadDiscarded ==
    [][ \A a \in LoadIds, b \in LoadIds :
          (a < b /\ loads[b].phase = "installed" /\ jellyObject = b
             /\ InstallStep(a))
          => (jellyObject' = b /\ children' = {b}) ]_vars

C4_ExactlyOneAfterReplace ==
    \A a \in LoadIds, b \in LoadIds :
       (loads[b].replaced = a /\ loads[b].phase = "installed"
          /\ loads[a].image # loads[b].image /\ jellyObject = b)
       => (Cardinality(children) = 1 /\ children = {b})

C4_Witness ==
    /\ Len(loads) >= 2
    /\ loads[2].replaced = 1 /\ loads[2].phase = "installed"
    /\ loads[1].image # loads[2].image
    /\ jellyObject = 2 /\ children = {2}

\* C5 as stated: when a replacement load fails, the object that was
\* installed when the load started is still installed and parented.
C5_PreviousObjectSurvivesFailure ==
    [][ \A l \in LoadIds :
          (FailStep(l) /\ loads[l].replaced # NULL)
          => (jellyObject' = loads[l].replaced
                /\ loads[l].replaced \in children') ]_vars

\* C5 amended: a failing load changes neither the tracker reference nor the
\* body's children, and the object it was to replace is already gone: it
\* was removed when the upload began and is never parented again.
C5_FailureLeavesTeardownInPlace ==
    [][ \A l \in LoadIds :
          FailStep(l)
          => /\ jellyObject' = jellyObject /\ children' = children
             /\ loads[l].replaced # NULL
                  => (jellyObject' # loads[l].replaced
                        /\ loads[l].replaced \notin children') ]_vars

\* C5 witness: a replacement load has failed and nothing is installed.
C5_Witness ==
    \E l \in LoadIds :
       /\ loads[l].phase \in {"failed", "textureError"}
       /\ loads[l].replaced # NULL
       /\ jellyObject = NULL /\ children = {}

AtRest == \A o \in Osc : wobbleState[o].position = 0

\* C6: in every frame in which all four oscillator positions are exactly 0,
\* after the embedded-object update every vertex of the primary mesh and of
\* the outline layer equals its cached rest vertex, also when earlier
\* frames wobbled and wrote deformed vertices.
C6_IdempotentAtRest ==
    (frame >= 1 /\ jellyObject # NULL /\ AtRest)
    => LET m == meshes[jellyObject]
       IN  /\ m.positions = m.originalVertices
           /\ m.outlinePositions = m.outlineOriginalVertices

\* C7: a frame integrates all four oscillators, then writes the uniforms
\* and updates the embedded object from the same advanced positions, and
\* nothing of a click or of a load changes within the frame.
C7_FrameUsesOneSnapshot ==
    [][ FrameStep
        => LET P == [o \in Osc |-> wobbleState'[o].position]
           IN  /\ \A o \in Osc :
                     wobbleState'[o] = updateSpring(wobbleState[o],
                                          stiffness[o], DeltaTime(clockDelta))
               /\ uniforms'.tiltX = P.tiltX
               /\ uniforms'.tiltY = P.tiltZ
               /\ uniforms'.squash = P.squash
               /\ jellyObject # NULL
                    => LET m == meshes'[jellyObject]
                       IN  /\ m.position = RigidPosition(P)
                           /\ m.rotation = RigidRotation(P)
                           /\ IsWobbling(P)
                                => \E sinv \in SinSamples :
                                     \A i \in DOMAIN m.originalVertices :
                                       m.positions[i] =
                                          DeformVertex(m.originalVertices[i],
                                                       P, sinv)
               /\ UNCHANGED <<jellyObject, children, loads, clicks>> ]_vars

\* C7 witness: a frame has run with an object installed and the body in
\* motion; uniforms and object both show the advanced state.
C7_Witness ==
    /\ frame >= 1 /\ jellyObject # NULL
    /\ uniforms.squash # 0
    /\ uniforms.squash = wobbleState.squash.position
    /\ meshes[jellyObject].position # objectOriginalPos
    /\ meshes[jellyObject].positions # meshes[jellyObject].originalVertices

NoImpulse == [o \in Osc |-> 0]

ImpulseOf(e, r) == IF e.hit THEN ClickImpulse(e, r) ELSE NoImpulse

\* C8: a click adds its impulse to the velocity it finds (never resets it,
\* never moves the position), and two impulses applied in a row leave an
\* oscillator in the state that their sum applied once leaves it in.
C8_Superposition ==
    [][ clicks' = clicks + 1
        => \E e \in ClickEvents, r \in RandomSamples :
             \A o \in Osc :
               /\ wobbleState'[o].position = wobbleState[o].position
               /\ wobbleState'[o].velocity =
                     wobbleState[o].velocity + ImpulseOf(e, r)[o]
               /\ \A e1 \in ClickEvents, r1 \in RandomSamples :
                     AddImpulse(AddImpulse(wobbleState[o], ImpulseOf(e1, r1)[o]),
                                ImpulseOf(e, r)[o])
                     = AddImpulse(wobbleState[o],
                                  ImpulseOf(e1, r1)[o] + ImpulseOf(e, r)[o])
      ]_vars

\* C8 witness: two hits before any frame; the velocities are the sums.
C8_Witness ==
    /\ frame = 0 /\ clicks = 2
    /\ wobbleState.squash.velocity = -(16 * SCALE)
    /\ wobbleState.tiltX.velocity = 10 * SCALE
    /\ wobbleState.tiltZ.velocity = 5 * SCALE
    /\ wobbleState.squash.position = 0

\* C9: after a single impulse from rest and frames of a fixed deltaTime of
\* at most 0.016 s, no peak of |position| exceeds the peak before it, and
\* from SettleFrames frames on |position| stays below 0.01, for each
\* stiffness (15, 25, 45).
C9_Decay ==
    [][ (FrameStep /\ clicks <= 1)
        => \A o \in Osc :
             /\ (PeakAt(wobbleState[o], wobbleState'[o]) /\ peak[o] >= 0)
                  => Abs(wobbleState[o].position) <= peak[o]
             /\ frame' >= SettleFrames
                  => Abs(wobbleState'[o].position) < Eps ]_vars

\* C9 witness: one click moved every oscillator, each has passed a peak,
\* and all are below the threshold after SettleFrames frames.
C9_Witness ==
    /\ clicks = 1 /\ frame >= SettleFrames
    /\ \A o \in Osc : peak[o] > 0 /\ Abs(wobbleState[o].position) < Eps

\* C10: a hit at local (x, z) adds (z / 1.5) * 5 to tiltX.velocity,
\* -(x / 1.5) * 5 to tiltZ.velocity and -8 to squash.velocity wherever it
\* lands; from rest squash.velocity is negative right after the click, and
\* a dead-centre hit leaves both tilt velocities unchanged.
C10_ClickImpulses ==
    [][ \A e \in ClickEvents, r \in RandomSamples :
          (e.hit /\ onJelloClick(e, r))
          => /\ wobbleState'.tiltX.velocity - wobbleState.tiltX.velocity
                  = RDiv(e.z * 10, 15) * 5
             /\ wobbleState'.tiltZ.velocity - wobbleState.tiltZ.velocity
                  = -(RDiv(e.x * 10, 15) * 5)
             /\ wobbleState'.squash.velocity - wobbleState.squash.velocity
                  = -(8 * SCALE)
             /\ wobbleState.squash = RestSpring
                  => wobbleState'.squash.velocity < 0
             /\ (e.x = 0 /\ e.z = 0)
                  => /\ wobbleState'.tiltX.velocity = wobbleState.tiltX.velocity
                     /\ wobbleState'.tiltZ.velocity = wobbleState.tiltZ.velocity
      ]_vars

\* C10 witness: one off-centre hit from rest, before any frame.
C10_Witness ==
    /\ clicks = 1 /\ frame = 0
    /\ wobbleState.tiltX.velocity = 5 * SCALE
    /\ wobbleState.tiltZ.velocity = (5 * SCALE) \div 2
    /\ wobbleState.squash.velocity = -(8 * SCALE)

\* C11: a click whose ray misses the body leaves the position and the
\* velocity of all four oscillators as they were; the handler does nothing
\* else either (it has no failing path).
C11_MissIsNoOp ==
    [][ \A e \in ClickEvents, r \in RandomSamples :
          (~e.hit /\ onJelloClick(e, r))
          => /\ wobbleState' = wobbleState
             /\ UNCHANGED <<uniforms, jellyObject, children, meshes, loads,
                            frame>> ]_vars

\* C11 witness: clicks were handled, before any frame, and the oscillators
\* are still at rest (a hit would have left squash.velocity at -8 or less).
C11_Witness ==
    /\ clicks >= 1 /\ frame = 0
    /\ \A o \in Osc : wobbleState[o] = RestSpring

\* a step of the upload pipeline: an upload event, or a load moving on to
\* its next phase, to success or to failure
LoadStep == loads' # loads

\* C12: no upload event, load success or load failure changes an
\* oscillator or the frame count; whatever the lifecycle state of the
\* embedded object (also after a failed load) a frame can run and
\* integrates all four oscillators, and a click on the body can be handled
\* and adds its impulses.
C12_WobbleIndependentOfUploads ==
    /\ [](/\ ENABLED (\E sinv \in SinSamples : animate(sinv))
          /\ \A e \in ClickEvents, r \in RandomSamples :
                ENABLED onJelloClick(e, r))
    /\ [][ /\ LoadStep
               => /\ wobbleState' = wobbleState
                  /\ frame' = frame /\ clicks' = clicks
           /\ FrameStep
               => \A o \in Osc :
                     wobbleState'[o] = updateSpring(wobbleState[o],
                                          stiffness[o], DeltaTime(clockDelta))
           /\ \A e \in ClickEvents, r \in RandomSamples :
                 (e.hit /\ onJelloClick(e, r))
                 => \A o \in Osc :
                       wobbleState'[o].velocity =
                          wobbleState[o].velocity + ClickImpulse(e, r)[o]
         ]_vars

\* C12 witness: a load has failed, nothing is installed, and the body has
\* been clicked and has moved in a frame.
C12_Witness ==
    /\ \E l \in LoadIds : loads[l].phase \in {"failed", "textureError"}
    /\ jellyObject = NULL
    /\ clicks = 1 /\ frame = 1
    /\ wobbleState.squash.position # 0
    /\ wobbleState.squash.velocity # 0

\* C13: any two consecutive API requests of the instance start at least
\* minRequestInterval apart, whichever calls issue them and whether they
\* are first attempts or retries.
C13_RequestsSpaced ==
    Len(requestLog) = 2
    => requestLog[2][2] - requestLog[1][2] >= minRequestInterval

\* C14: one _analyzeWithClaude call issues at most maxRetries API attempts;
\* once an attempt has succeeded the call issues no further attempt; the
\* call has thrown "API failed after N attempts" exactly when maxRetries
\* attempts have been issued and the last one has failed too.
C14_AtMostMaxRetries ==
    /\ [](\A c \in CallIds :
            /\ calls[c].requests <= maxRetries
            /\ calls[c].requests = calls[c].attempt
            /\ calls[c].error = "apiFailed"
                 => (calls[c].pc = "failed" /\ calls[c].requests = maxRetries)
            /\ (calls[c].requests = maxRetries
                   /\ calls[c].pc \notin {"fetch", "process", "done"})
                 => calls[c].error = "apiFailed")
    /\ [][ \A c \in CallIds :
             calls[c].pc \in {"process", "done", "failed"}
             => calls'[c].requests = calls[c].requests ]_vars

\* C14 witness: a call has given up after maxRetries failed attempts.
C14_Witness ==
    \E c \in CallIds :
       /\ calls[c].pc = "failed" /\ calls[c].error = "apiFailed"
       /\ calls[c].requests = maxRetries

\* C15: with the cache enabled, a call for a file that an earlier call has
\* analysed successfully, with no clearCache since that success, issues no
\* API request and returns the result the earlier call stored.
C15_CachedResultReused ==
    enableCache
    => \A c \in CallIds :
          calls[c].covered
          => /\ calls[c].requests = 0
             /\ calls[c].pc \in {"base64", "done"}
             /\ calls[c].pc = "done"
                  => \E d \in CallIds :
                        /\ d < c /\ calls[d].file = calls[c].file
                        /\ calls[d].pc = "done" /\ calls[d].requests > 0
                        /\ calls[c].result = calls[d].result

\* C15 witness: the second call for the same file has returned the first
\* call's result, and only the first call has sent a request.
C15_Witness ==
    /\ Len(calls) = 2
    /\ calls[1].file = calls[2].file
    /\ calls[2].covered /\ calls[2].pc = "done"
    /\ calls[2].result = calls[1].result
    /\ calls[1].requests > 0 /\ calls[2].requests = 0

\* C16: analyzeBatch handles its files one at a time in input order (a
\* file's call starts only when every earlier file's call has ended), its
\* results are one entry per handled file in that order, an entry says
\* success exactly when its call returned, and when the batch returns
\* there is an entry for every file, whatever failed before.
C16_BatchInOrder ==
    batch.pc # "idle"
    => /\ Len(calls) <= Len(batch.files)
       /\ \A c \in CallIds :
             /\ calls[c].file = batch.files[c]
             /\ c < Len(calls) => ~Pending(c)
       /\ Len(batch.results) <= Len(calls)
       /\ \A j \in DOMAIN batch.results :
             /\ batch.results[j].file = batch.files[j].name
             /\ batch.results[j].success = (calls[j].pc = "done")
             /\ batch.results[j].success
                  => batch.results[j].result = calls[j].result
       /\ batch.pc = "done" => Len(batch.results) = Len(batch.files)

\* C16 witness: a batch of two files has returned; the first file failed
\* and the second succeeded.
C16_Witness ==
    /\ batch.pc = "done" /\ Len(batch.files) = 2
    /\ Len(batch.results) = 2
    /\ ~batch.results[1].success /\ batch.results[1].error = "apiFailed"
    /\ batch.results[2].success

\* an upload that passes validation is handled in this step
UploadStep == Len(loads') = Len(loads) + 1

\* C17: when an upload arrives while an object is installed, then before
\* the new load starts (its background removal is still to be awaited) the
\* object is out of the scene graph, its geometry and materials and its
\* texture are released, and the tracker reference is null.
C17_TeardownBeforeLoad ==
    [][ (UploadStep /\ jellyObject # NULL)
        => /\ loads'[Len(loads')].phase = "removeBackground"
           /\ jellyObject \notin children'
           /\ jellyObject \notin DOMAIN meshes'
           /\ jellyObject' = NULL
           /\ loads'[jellyObject].texture # "live" ]_vars

\* C18: in every frame with an installed object, the vertices of the primary
\* mesh and of the outline after the frame are the ones obtained by applying
\* the deformation to originalVertices in that frame, whether or not the
\* isWobbling gate let the vertex loops run.
C18_GateIsPureOptimization ==
    [][ (FrameStep /\ jellyObject # NULL)
        => LET P == [o \in Osc |-> wobbleState'[o].position]
               m == meshes'[jellyObject]
           IN  /\ \E sinv \in SinSamples :
                     \A i \in DOMAIN m.originalVertices :
                       m.positions[i] =
                           DeformVertex(m.originalVertices[i], P, sinv)
               /\ \A i \in DOMAIN m.outlineOriginalVertices :
                     m.outlinePositions[i] =
                         DeformOutlineVertex(m.outlineOriginalVertices[i], P) ]_vars

\* C19: the outline loop takes its height factor from the outline's cached
\* rest Y divided by the scale factor the outline geometry was built with,
\* so outline vertex i gets the height factor of primary vertex i.
C19_OutlineHeightFactor ==
    \A id \in DOMAIN meshes :
      \A i \in DOMAIN meshes[id].originalVertices :
        OutlineHeightFactorSquared(meshes[id].outlineOriginalVertices[i])
          = HeightFactorSquared(meshes[id].originalVertices[i].y
                                  + objectOriginalPos.y)

\* a live buffer of mesh m has another vertex count than its cache
Mismatch(m) ==
    \/ Len(m.positions) # Len(m.originalVertices)
    \/ Len(m.outlinePositions) # Len(m.outlineOriginalVertices)

C21_FirstFrameFullApply ==
    [][ (FrameStep /\ jellyObject # NULL /\ meshes[jellyObject].fresh)
        => LET P == Positions(wobbleState')
               m == meshes'[jellyObject]
           IN  /\ \E sinv \in SinSamples :
                     \A i \in DOMAIN m.originalVertices :
                       m.positions[i] =
                           DeformVertex(m.originalVertices[i], P, sinv)
               /\ \A i \in DOMAIN m.outlineOriginalVertices :
                     m.outlinePositions[i] =
                         DeformOutlineVertex(m.outlineOriginalVertices[i], P) ]_vars

\* C22: every frame integrates the four oscillators with one time step,
\* and that step is at most 0.016 s however long the frame interval was.
C22_DeltaTimeClamped ==
    [][ FrameStep
        => \E dt \in 0..MaxDeltaMs :
             /\ dt <= clockDelta
             /\ \A o \in Osc :
                   wobbleState'[o] =
                       updateSpring(wobbleState[o], stiffness[o], dt) ]_vars

\* a frame of a stalled display has advanced springs that were moving
C22_Witness ==
    /\ frame >= 2
    /\ clockDelta > MaxDeltaMs
    /\ \E o \in Osc : wobbleState[o].position # 0

\* mesh m has its primary buffer, its outline buffer and both snapshots
Complete(m) ==
    /\ Len(m.positions) = (GridSegs + 1) * (GridSegs + 1)
    /\ Len(m.originalVertices) = Len(m.positions)
    /\ Len(m.outlinePositions) = Len(m.positions)
    /\ Len(m.outlineOriginalVertices) = Len(m.positions)

\* C23: every object parented under the body belongs to a load whose
\* texture callback ran to its end, with primary mesh, outline and both
\* originalVertices snapshots complete; a load that failed has nothing
\* parented under the body.
C23_NoPartialObject ==
    \A id \in children :
       /\ id \in LoadIds
       /\ loads[id].phase = "installed"
       /\ id \in DOMAIN meshes
       /\ Complete(meshes[id])

\* one load has failed and another load's object is parented
C23_Witness ==
    \E l \in LoadIds, k \in LoadIds :
       /\ loads[l].phase \in {"failed", "textureError"}
       /\ k \in children
       /\ loads[k].phase = "installed"

\* C24: in every frame isWobbling is true exactly when at least one of the
\* four oscillators tiltX, tiltZ, squash, twist has |position| > 0.01.
C24_IsWobblingAnyOscillator ==
    frame >= 1
    => (IsWobbling(Positions(wobbleState))
          <=> \E o \in Osc : Abs(wobbleState[o].position) > Eps)

ClickStep == clicks' = clicks + 1

\* C25: a click changes oscillator velocities only: when the handler
\* returns, every oscillator position, the uniforms and every vertex
\* buffer are as before; the impulse moves the positions, the uniforms and
\* the geometry in the next frame.
C25_ClickOnlyChangesVelocity ==
    [][ /\ ClickStep
          => /\ \A o \in Osc :
                   wobbleState'[o].position = wobbleState[o].position
             /\ uniforms' = uniforms
             /\ meshes' = meshes
        /\ (FrameStep /\ AtRest /\ wobbleState.squash.velocity <= -(8 * SCALE))
          => /\ wobbleState'.squash.position < 0
             /\ uniforms'.squash = wobbleState'.squash.position
             /\ jellyObject # NULL
                  => meshes'[jellyObject].positions
                        # meshes[jellyObject].positions ]_vars

\* an installed object was clicked at rest and the next frame has moved
\* its vertices
C25_Witness ==
    /\ clicks = 1 /\ frame = 1
    /\ jellyObject # NULL
    /\ uniforms.squash < 0
    /\ meshes[jellyObject].positions # meshes[jellyObject].originalVertices

\* C26: one integrate step with time step dt takes (p, v) to
\* v' = (v - p * stiffness * dt) * 0.97 and p' = p + v' * dt: the position
\* moves by the new, damped velocity, and the factor 0.97 is the same for
\* all four oscillators.
C26_IntegrateStep ==
    [][ FrameStep
        => \A o \in Osc :
             LET dt == Min(clockDelta, MaxDeltaMs)
                 p == wobbleState[o].position
                 v == wobbleState[o].velocity
                 vNew == wobbleState'[o].velocity
             IN  /\ vNew = RDiv((v - RDiv(p * stiffness[o] * dt, 1000)) * 97,
                                100)
                 /\ wobbleState'[o].position = p + RDiv(vNew * dt, 1000) ]_vars

\* all four oscillators are in motion and have been integrated twice
C26_Witness ==
    /\ frame >= 2
    /\ \A o \in Osc :
          wobbleState[o].position # 0 /\ wobbleState[o].velocity # 0

\* C27: a frame takes each oscillator to a state that its own position and
\* velocity, its own stiffness and the time step determine: an oscillator
\* at rest stays at rest whatever the others do, and two oscillators of
\* equal stiffness in equal states stay equal.
C27_NoCrossCoupling ==
    [][ FrameStep
        => /\ \A o \in Osc :
                 /\ wobbleState'[o] = updateSpring(wobbleState[o], stiffness[o],
                                                   DeltaTime(clockDelta))
                 /\ wobbleState[o] = RestSpring
                      => wobbleState'[o] = RestSpring
           /\ \A o \in Osc, q \in Osc :
                 (stiffness[o] = stiffness[q] /\ wobbleState[o] = wobbleState[q])
                 => wobbleState'[o] = wobbleState'[q] ]_vars

\* after two frames one oscillator is still at rest while another moves
C27_Witness ==
    /\ frame >= 2
    /\ wobbleState.tiltX = RestSpring
    /\ wobbleState.twist = RestSpring
    /\ wobbleState.squash.position # 0

\* the oscillators W with twist put to rest
Untwisted(W) == [W EXCEPT !.twist = RestSpring]

\* C28: twist influences no output: what a frame writes to the uniforms
\* and to the embedded object's position, rotation and vertices, and where
\* it takes tiltX, tiltZ and squash, is what the same frame writes from a
\* state whose twist is at rest; and what a click adds to tiltX, tiltZ and
\* squash does not depend on the random number that sets the twist impulse.
C28_TwistFeedsNothing ==
    [][ /\ FrameStep
          => LET W0 == AdvanceWobble(Untwisted(wobbleState),
                                     DeltaTime(clockDelta))
             IN  /\ \A o \in Osc \ {"twist"} : wobbleState'[o] = W0[o]
                 /\ uniforms' = UniformsOf(W0)
                 /\ jellyObject # NULL
                      => \E sinv \in SinSamples :
                            meshes'[jellyObject] =
                               UpdateEmbeddedObject(meshes[jellyObject],
                                                    Positions(W0), sinv)
        /\ ClickStep
          => \E e \in ClickEvents :
               \A r \in RandomSamples, o \in Osc \ {"twist"} :
                 wobbleState'[o] =
                    AddImpulse(wobbleState[o], ImpulseOf(e, r)[o]) ]_vars

\* a frame has updated an installed object while twist was displaced
C28_Witness ==
    /\ frame >= 1
    /\ jellyObject # NULL
    /\ ~meshes[jellyObject].fresh
    /\ wobbleState.twist.position # 0

\* C29: the originalVertices of the primary mesh and of the outline are
\* the vertices of the geometry as built, and no frame, click or later
\* upload changes an entry of them while the mesh exists.
C29_SnapshotImmutable ==
    /\ [](\A id \in DOMAIN meshes :
            LET size == PlaneSize(meshes[id].image)
                geometry == PlaneGeometry(size.width, size.height)
            IN  /\ meshes[id].originalVertices = geometry
                /\ meshes[id].outlineOriginalVertices
                      = OutlineGeometry(geometry))
    /\ [][ \A id \in DOMAIN meshes \cap DOMAIN meshes' :
             /\ meshes'[id].originalVertices = meshes[id].originalVertices
             /\ meshes'[id].outlineOriginalVertices
                   = meshes[id].outlineOriginalVertices ]_vars

\* a frame has deformed both buffers of an installed object after a click
C29_Witness ==
    \E id \in DOMAIN meshes :
       /\ ~meshes[id].fresh
       /\ meshes[id].positions # meshes[id].originalVertices
       /\ meshes[id].outlinePositions # meshes[id].outlineOriginalVertices
       /\ clicks >= 1

====
